---- MODULE Spec2Model ----
(***************************************************************************)
(* Model of the forensic metadata analyser: the format dispatch            *)
(* (parseFile), the four format parsers (parseImage, parsePng, parsePdf,   *)
(* parseDocx) and the byte utilities (extractStrings).                     *)
(*                                                                         *)
(* A byte is an integer 0..255, a buffer a sequence of bytes, a JavaScript *)
(* string a sequence of character codes (file contents) or of one-letter   *)
(* strings (file names).  The external capabilities (ExifReader, pdf-lib,  *)
(* JSZip, File.arrayBuffer) are oracles carried by the file record: what   *)
(* each returns or whether it throws is an input of the run.               *)
(***************************************************************************)
EXTENDS Integers, Sequences, FiniteSets, TLC

VARIABLES file, pc, branch, offset, chunks, warnings, metadata, xmlDump, result,
          buffer, minLength, strings, frequencies, entropy, files, batches

vars == <<file, pc, branch, offset, chunks, warnings, metadata, xmlDump, result,
          buffer, minLength, strings, frequencies, entropy, files, batches>>

parserVars == <<file, pc, branch, offset, chunks, warnings, metadata, xmlDump, result>>

stringVars == <<buffer, minLength, strings>>

entropyVars == <<frequencies, entropy>>

appVars == <<files, batches>>

(***************************************************************************)
(* Bounds of the model.                                                    *)
(***************************************************************************)
\* chunk blocks after the signature in a generated PNG buffer
MaxBlocks == 2
\* iterations of the PNG chunk walk that are followed (the walk itself is unbounded)
MaxWalk == 5
\* fragments concatenated into a generated PDF buffer
MaxFragments == 2
\* length of the exhaustively generated buffers given to extractStrings
MaxLen == 4
\* largest minLength given to extractStrings besides the default
MaxMinLength == 3
\* length of the exhaustively generated buffers given to getEntropy
MaxEntropyLen == 5
\* files selected in one session, over all its uploads
MaxFiles == 3

(***************************************************************************)
(* JavaScript values.                                                      *)
(***************************************************************************)
\* the empty object {}
EmptyObject == <<>>

\* null (a missing XML tag) and a missing tag of the EXIF tree
Null == "null"

Has(obj, key) == key \in DOMAIN obj

\* 2^16: a 32-bit integer is held as two 16-bit halves
Pow16 == 65536

Pow15 == Pow16 \div 2

\* the largest 32-bit signed integer, 2^31 - 1
MaxInt == (Pow15 - 1) * Pow16 + (Pow16 - 1)

(***************************************************************************)
(* Strings: String.prototype.endsWith, toLowerCase, includes.              *)
(***************************************************************************)
LowerOf ==
  [c \in {"A","B","C","D","E","F","G","H","I","J","K","L","M","N","O","P","Q",
          "R","S","T","U","V","W","X","Y","Z"} |->
     CASE c = "A" -> "a" [] c = "B" -> "b" [] c = "C" -> "c" [] c = "D" -> "d"
       [] c = "E" -> "e" [] c = "F" -> "f" [] c = "G" -> "g" [] c = "H" -> "h"
       [] c = "I" -> "i" [] c = "J" -> "j" [] c = "K" -> "k" [] c = "L" -> "l"
       [] c = "M" -> "m" [] c = "N" -> "n" [] c = "O" -> "o" [] c = "P" -> "p"
       [] c = "Q" -> "q" [] c = "R" -> "r" [] c = "S" -> "s" [] c = "T" -> "t"
       [] c = "U" -> "u" [] c = "V" -> "v" [] c = "W" -> "w" [] c = "X" -> "x"
       [] c = "Y" -> "y" [] c = "Z" -> "z"]

toLowerCase(s) ==
  [i \in 1..Len(s) |-> IF s[i] \in DOMAIN LowerOf THEN LowerOf[s[i]] ELSE s[i]]

\* a plausible slip: the dot of the extension is not compared
endsWithNoDot(s, suffix) ==
  /\ Len(s) >= Len(suffix) - 1
  /\ SubSeq(s, Len(s) - Len(suffix) + 2, Len(s)) = Tail(suffix)

endsWith(s, suffix) ==
  /\ Len(s) >= Len(suffix)
  /\ SubSeq(s, Len(s) - Len(suffix) + 1, Len(s)) = suffix

includes(s, pat) ==
  \E i \in 1..(Len(s) - Len(pat) + 1) : SubSeq(s, i, i + Len(pat) - 1) = pat

ExtJpg == <<".", "j", "p", "g">>

ExtJpeg == <<".", "j", "p", "e", "g">>

ExtPng == <<".", "p", "n", "g">>

ExtPdf == <<".", "p", "d", "f">>

ExtDocx == <<".", "d", "o", "c", "x">>

MimeJpeg == "image/jpeg"

MimePng == "image/png"

MimePdf == "application/pdf"

MimeDocx == "application/vnd.openxmlformats-officedocument.wordprocessingml.document"

(***************************************************************************)
(* Warning texts (accents dropped).                                        *)
(***************************************************************************)
WarnExif == "Erro ao ler EXIF"

WarnSoftware == "Software detectado"

WarnImageTemporal == "Inconsistencia Temporal: Data de Criacao posterior a Data de Modificacao"

WarnPngSignature == "Assinatura PNG invalida"

WarnPdfJs == "JavaScript embarcado detectado (potencialmente malicioso)"

WarnPdfAction == "Acoes automaticas detectadas (/OpenAction ou /AA)"

WarnPdfError == "Erro ao analisar PDF"

WarnDocxTemporal == "Inconsistencia Temporal: Criado depois de Modificado"

WarnDocxError == "Erro ao analisar DOCX (ZIP)"

(***************************************************************************)
(* extractStrings (utils/common.ts): the scan, index by index.             *)
(***************************************************************************)
isPrintable(charCode) ==
  \/ (charCode >= 32 /\ charCode <= 126)
  \/ charCode = 9
  \/ charCode = 10
  \/ charCode = 13

\* a plausible slip: a run of exactly minLength bytes is dropped (> for >=)
flushStrict(out, currentString, min) ==
  IF Len(currentString) > min THEN Append(out, currentString) ELSE out

\* the flush of the accumulated run: kept when its length is >= minLength
flush(out, currentString, min) ==
  IF Len(currentString) >= min THEN Append(out, currentString) ELSE out

\* one iteration of the loop on the locals currentString and strings (out)
scanStep(st, byte, min) ==
  IF isPrintable(byte)
    THEN [currentString |-> Append(st.currentString, byte), out |-> st.out]
    ELSE [currentString |-> <<>>, out |-> flush(st.out, st.currentString, min)]

\* for (i = 0; i < data.length; i++) ...
\* the iterations lo..hi in order, as the first half followed by the second;
\* the test on the first half's value has it computed before the second starts
RECURSIVE scanStrings(_, _, _, _, _)
scanStrings(data, lo, hi, st, min) ==
  IF lo > hi
    THEN st
    ELSE IF lo = hi
      THEN scanStep(st, data[lo], min)
      ELSE LET mid == (lo + hi) \div 2
               first == scanStrings(data, lo, mid, st, min)
           IN  IF Len(first.out) >= 0 THEN scanStrings(data, mid + 1, hi, first, min) ELSE first

\* the loop, then the flush of the run the buffer ends with
extractStrings(data, min) ==
  LET st == scanStrings(data, 1, Len(data), [currentString |-> <<>>, out |-> <<>>], min)
  IN  flush(st.out, st.currentString, min)

\* the default of the minLength parameter
DefaultMinLength == 4

(***************************************************************************)
(* getEntropy (utils/common.ts).  A JavaScript number is held as           *)
(* [nan |-> is it NaN, micro |-> its value in millionths, rounded down]:   *)
(* an entropy of 7.5 bits is micro = 7500000.  Math.log2 is a table of the *)
(* arguments the model's buffers produce.                                  *)
(***************************************************************************)
Number(micro) == [nan |-> FALSE, micro |-> micro]

Zero == Number(0)

NaN == [nan |-> TRUE, micro |-> 0]

\* Math.log2(n) in millionths, for the counts and lengths of the model's buffers
Log2Micro ==
  [n \in (1..8) \cup {181, 182, 256} |->
     CASE n = 1 -> 0
       [] n = 2 -> 1000000
       [] n = 3 -> 1584963
       [] n = 4 -> 2000000
       [] n = 5 -> 2321928
       [] n = 6 -> 2584963
       [] n = 7 -> 2807355
       [] n = 8 -> 3000000
       [] n = 181 -> 7499846
       [] n = 182 -> 7507795
       [] n = 256 -> 8000000]

\* new Array(256).fill(0)
zeroFrequencies == [b \in 0..255 |-> 0]

\* for (i = 0; i < data.length; i++) frequencies[data[i]]++
\* the iterations lo..hi in order, as the first half followed by the second;
\* the test on the first half's value has it computed before the second starts
RECURSIVE countBytes(_, _, _, _)
countBytes(data, lo, hi, freq) ==
  IF lo > hi
    THEN freq
    ELSE IF lo = hi
      THEN [freq EXCEPT ![data[lo]] = @ + 1]
      ELSE LET mid == (lo + hi) \div 2
               first == countBytes(data, lo, mid, freq)
           IN  IF first[0] >= 0 THEN countBytes(data, mid + 1, hi, first) ELSE first

\* a plausible slip: the test frequencies[i] > 0 is missing; an empty bucket
\* then adds 0 * log2(0) = 0 * -Infinity, or (0/0) * log2(0/0): NaN
entropyStepUnguarded(acc, count, len) ==
  IF count > 0
    THEN IF acc.nan
           THEN NaN
           ELSE Number(acc.micro + (count * (Log2Micro[len] - Log2Micro[count])) \div len)
    ELSE NaN

\* if (frequencies[i] > 0) { p = frequencies[i] / len; entropy -= p * Math.log2(p) }
\* with -p * log2(p) = (count / len) * (log2(len) - log2(count))
entropyStep(acc, count, len) ==
  IF count > 0
    THEN IF acc.nan
           THEN NaN
           ELSE Number(acc.micro + (count * (Log2Micro[len] - Log2Micro[count])) \div len)
    ELSE acc

\* for (i = 0; i < 256; i++) ...
\* the iterations lo..hi in order, as the first half followed by the second;
\* the test on the first half's value has it computed before the second starts
RECURSIVE sumBuckets(_, _, _, _, _)
sumBuckets(freq, len, lo, hi, acc) ==
  IF lo = hi
    THEN entropyStep(acc, freq[lo], len)
    ELSE LET mid == (lo + hi) \div 2
             first == sumBuckets(freq, len, lo, mid, acc)
         IN  IF first.nan \in BOOLEAN THEN sumBuckets(freq, len, mid + 1, hi, first) ELSE first

histogram(data) == countBytes(data, 1, Len(data), zeroFrequencies)

getEntropy(data) == sumBuckets(histogram(data), Len(data), 0, 255, Zero)

\* the threshold of the high-entropy banner, 7.5 bits per byte, in millionths
HighEntropyMicro == 7500000

\* entropy && entropy > 7.5: NaN and 0 are falsy, and NaN compares false
isHighEntropy(e) == ~e.nan /\ e.micro # 0 /\ e.micro > HighEntropyMicro

(***************************************************************************)
(* parseImage (utils/parsers.ts).  file.exif is what ExifReader.load does  *)
(* on the file: [throws |-> TRUE], or [throws |-> FALSE, tags |-> tree],   *)
(* the tree a function from group names ("exif", "xmp") to functions from  *)
(* tag names to [description |-> text].  An unreadable file makes the load *)
(* throw.                                                                  *)
(***************************************************************************)
\* the description texts of the date tags, in the order of JavaScript's string comparison
DescriptionRank ==
  [d \in {"", "2020:01:01 10:00:00", "2021:06:01 10:00:00"} |->
     CASE d = "" -> 0
       [] d = "2020:01:01 10:00:00" -> 1
       [] d = "2021:06:01 10:00:00" -> 2]

Descriptions == DOMAIN DescriptionRank

\* tags.group?.tag is an object (not undefined)
HasTag(tags, group, tag) == Has(tags, group) /\ Has(tags[group], tag)

\* tags.exif?.tag?.description
Description(tags, tag) ==
  IF HasTag(tags, "exif", tag) THEN tags["exif"][tag].description ELSE Null

\* a JavaScript string used as a condition: undefined and "" are falsy
Truthy(text) == text # Null /\ text # ""

exifLoadThrows(f) == ~f.readable \/ f.exif.throws

imageTags(f) == IF exifLoadThrows(f) THEN EmptyObject ELSE f.exif.tags

\* a plausible slip: only exif.Software is tested, xmp.CreatorTool is forgotten
imageWarningsExifOnly(f) ==
  LET tags == imageTags(f)
      created == Description(tags, "DateTimeOriginal")
      modified == Description(tags, "DateTime")
      w1 == IF exifLoadThrows(f) THEN <<WarnExif>> ELSE <<>>
      w2 == IF HasTag(tags, "exif", "Software") THEN Append(w1, WarnSoftware) ELSE w1
  IN  IF Truthy(created) /\ Truthy(modified)
         /\ DescriptionRank[created] > DescriptionRank[modified]
        THEN Append(w2, WarnImageTemporal)
        ELSE w2

imageWarnings(f) ==
  LET tags == imageTags(f)
      created == Description(tags, "DateTimeOriginal")
      modified == Description(tags, "DateTime")
      w1 == IF exifLoadThrows(f) THEN <<WarnExif>> ELSE <<>>
      w2 == IF HasTag(tags, "exif", "Software") \/ HasTag(tags, "xmp", "CreatorTool")
              THEN Append(w1, WarnSoftware) ELSE w1
  IN  IF Truthy(created) /\ Truthy(modified)
         /\ DescriptionRank[created] > DescriptionRank[modified]
        THEN Append(w2, WarnImageTemporal)
        ELSE w2

parseImage(f) ==
  [fileType |-> "IMAGE", metadata |-> imageTags(f), warnings |-> imageWarnings(f)]

(***************************************************************************)
(* parsePng: the signature check and one iteration of the chunk walk.      *)
(* offset is the 0-based byte offset of the code; data[offset] of the code *)
(* is ByteAt(data, offset).                                                *)
(***************************************************************************)
\* ToInt32 of the array read data[i], as <<, | and String.fromCharCode apply it:
\* a read outside the array is undefined, which they take as 0
Int32Of(data, i) == IF i >= 0 /\ i < Len(data) THEN data[i + 1] ELSE 0

PngMagic == <<137, 80, 78, 71>>

\* a plausible slip: only the first byte of the magic number is compared
pngSignatureInvalidFirstByte(data) ==
  IF Len(data) >= 1 THEN data[1] # PngMagic[1] ELSE TRUE

\* data[0] !== 0x89 || data[1] !== 0x50 || data[2] !== 0x4E || data[3] !== 0x47:
\* a byte missing from a short buffer is undefined, which differs
pngSignatureInvalid(data) ==
  \E i \in 1..4 : IF i <= Len(data) THEN data[i] # PngMagic[i] ELSE TRUE

\* (data[off] << 24) | (data[off+1] << 16) | (data[off+2] << 8) | data[off+3]:
\* a signed 32-bit integer, negative when the first byte is >= 0x80
chunkLength(data, off) ==
  LET hi == Int32Of(data, off) * 256 + Int32Of(data, off + 1)
      lo == Int32Of(data, off + 2) * 256 + Int32Of(data, off + 3)
  IN  IF hi >= Pow15 THEN (hi - Pow16) * Pow16 + lo ELSE hi * Pow16 + lo

\* String.fromCharCode of the four type bytes, as character codes
chunkType(data, off) == [k \in 1..4 |-> Int32Of(data, off + 3 + k)]

\* offset += 4 + 4 + length + 4, a double in the code: a sum above 2^31 - 1 is
\* held as 2^31 - 1, which like it is beyond the end of every buffer
nextOffset(off, length) ==
  IF off + 12 > 0 /\ length > MaxInt - (off + 12)
    THEN MaxInt
    ELSE off + 12 + length

\* the loop condition and the break of the walk
walkContinues(data, off) == off < Len(data) /\ ~(off + 8 > Len(data))

(***************************************************************************)
(* parsePdf.  file.pdf is what pdf-lib does on the buffer: "ok" (load and  *)
(* the getters return), "loadThrows" (PDFDocument.load rejects) or         *)
(* "getterThrows" (the document loads and a getter of the Info dictionary  *)
(* throws).  Everything from the load to the heuristics is inside the try. *)
(***************************************************************************)
PatJavaScript == <<47, 74, 97, 118, 97, 83, 99, 114, 105, 112, 116>>

PatJS == <<47, 74, 83>>

PatOpenAction == <<47, 79, 112, 101, 110, 65, 99, 116, 105, 111, 110>>

PatAA == <<47, 65, 65>>

\* strings.some(s => s.includes(p1) || s.includes(p2))
someIncludes(strs, p1, p2) ==
  \E k \in 1..Len(strs) : includes(strs[k], p1) \/ includes(strs[k], p2)

\* the Info dictionary fields read by the getters
pdfInfo ==
  [pageCount |-> 1, title |-> "t", author |-> "a", subject |-> Null, keywords |-> Null,
   creator |-> "c", producer |-> "p", creationDate |-> Null, modificationDate |-> Null]

pdfHeuristics(data) ==
  LET strs == extractStrings(data, DefaultMinLength)
      w1 == IF someIncludes(strs, PatJavaScript, PatJS) THEN <<WarnPdfJs>> ELSE <<>>
  IN  IF someIncludes(strs, PatOpenAction, PatAA) THEN Append(w1, WarnPdfAction) ELSE w1

\* a plausible slip: the catch block swallows the error without a warning
pdfCatchSilent(w) == w

\* catch (e) { warnings.push(...) }
pdfCatch(w) == Append(w, WarnPdfError)

parsePdf(f) ==
  IF f.pdf = "ok"
    THEN [fileType |-> "PDF", metadata |-> pdfInfo,
          warnings |-> pdfHeuristics(f.data), xmlDump |-> <<>>]
    ELSE [fileType |-> "PDF", metadata |-> EmptyObject,
          warnings |-> pdfCatch(<<>>), xmlDump |-> <<>>]

(***************************************************************************)
(* parseDocx.  file.zip is what JSZip does on the file: opens (loadAsync   *)
(* resolves) and, for each of the three entries, its state: "absent"       *)
(* (zip.file returns null), "ok" (async('text') resolves) or "throws"      *)
(* (async('text') rejects).  The text of an entry is held as the XML       *)
(* document DOMParser makes of it: a function from the tag names present   *)
(* to the textContent of the first element of that name.  parseFromString  *)
(* does not throw on a text that is not well-formed: it returns a document *)
(* with a parsererror element, beside whichever elements the browser       *)
(* kept.  An unreadable file makes loadAsync reject.                       *)
(***************************************************************************)
PathCore == "docProps/core.xml"

PathApp == "docProps/app.xml"

PathCustom == "docProps/custom.xml"

\* const extract = (tag) => { el = getElementsByTagName(tag)[0]; return el ? el.textContent : null }
extract(xmlDoc, tag) == IF Has(xmlDoc, tag) THEN xmlDoc[tag] ELSE Null

coreProperties(xmlDoc) ==
  [creator |-> extract(xmlDoc, "dc:creator"),
   lastModifiedBy |-> extract(xmlDoc, "cp:lastModifiedBy"),
   revision |-> extract(xmlDoc, "cp:revision"),
   created |-> extract(xmlDoc, "dcterms:created"),
   modified |-> extract(xmlDoc, "dcterms:modified"),
   title |-> extract(xmlDoc, "dc:title"),
   subject |-> extract(xmlDoc, "dc:subject"),
   description |-> extract(xmlDoc, "dc:description")]

appProperties(xmlDoc) ==
  [template |-> extract(xmlDoc, "Template"),
   totalTime |-> extract(xmlDoc, "TotalTime"),
   pages |-> extract(xmlDoc, "Pages"),
   words |-> extract(xmlDoc, "Words"),
   application |-> extract(xmlDoc, "Application"),
   company |-> extract(xmlDoc, "Company"),
   docSecurity |-> extract(xmlDoc, "DocSecurity")]

\* new Date(text).getTime() in days, for the texts that parse; the others give NaN
DateValue ==
  [t \in {"2020-01-01", "2020-01-02"} |->
     IF t = "2020-01-01" THEN 18262 ELSE 18263]

\* a plausible slip: >= for >, equal dates count as inconsistent
dateGreaterOrEqual(a, b) ==
  a \in DOMAIN DateValue /\ b \in DOMAIN DateValue /\ DateValue[a] >= DateValue[b]

\* new Date(a) > new Date(b): false when either is an Invalid Date
dateGreater(a, b) ==
  a \in DOMAIN DateValue /\ b \in DOMAIN DateValue /\ DateValue[a] > DateValue[b]

docxTemporal(core) ==
  Truthy(core.created) /\ Truthy(core.modified) /\ dateGreater(core.created, core.modified)

\* xmlDump += '--- path ---\n' + text + '\n\n'
dumpSection(dump, path, text) == Append(dump, [path |-> path, text |-> text])

\* metadata.key = value
setKey(obj, key, value) == [k \in DOMAIN obj \cup {key} |-> IF k = key THEN value ELSE obj[k]]

docxResult(m, w, x) == [fileType |-> "DOCX", metadata |-> m, warnings |-> w, xmlDump |-> x]

\* a plausible slip: the catch block returns a fresh result, dropping what was extracted
docxFailureDiscards(m, w, x) == docxResult(EmptyObject, <<WarnDocxError>>, <<>>)

\* catch (e) { warnings.push(...) } and the return after it
docxFailure(m, w, x) == docxResult(m, Append(w, WarnDocxError), x)

(***************************************************************************)
(* The files given to parseFile.                                           *)
(***************************************************************************)
File(type, name, data, readable, exif, pdf, zip) ==
  [type |-> type, name |-> name, data |-> data, readable |-> readable,
   exif |-> exif, pdf |-> pdf, zip |-> zip]

\* the MIME types: the four recognised ones, none, and an unrecognised one
Types == {MimeJpeg, MimePng, MimePdf, MimeDocx, "", "text/plain"}

Names ==
  { <<"a", ".", "j", "p", "g">>, <<"A", ".", "J", "P", "G">>,
    <<"a", ".", "j", "p", "e", "g">>, <<"a", ".", "p", "n", "g">>,
    <<"a", ".", "P", "n", "G">>, <<"a", ".", "p", "d", "f">>,
    <<"a", ".", "P", "D", "F">>, <<"a", ".", "d", "o", "c", "x">>,
    <<"a", ".", "d", "a", "t">>, <<"a", "p", "d", "f">>, <<"j", "p", "g">>,
    <<"a", ".", "p", "d", "f", ".", "t", "x", "t">>,
    <<"a", ".", "d", "o", "c", "x", ".", "p", "n", "g">>, <<>> }

ExifThrows == [throws |-> TRUE, tags |-> EmptyObject]

exifGroup(software, original, dateTime) ==
  [k \in (IF software THEN {"Software"} ELSE {})
         \cup (IF original # Null THEN {"DateTimeOriginal"} ELSE {})
         \cup (IF dateTime # Null THEN {"DateTime"} ELSE {}) |->
     [description |-> CASE k = "Software" -> "GIMP"
                        [] k = "DateTimeOriginal" -> original
                        [] k = "DateTime" -> dateTime]]

tagTree(software, creatorTool, original, dateTime) ==
  [g \in (IF DOMAIN exifGroup(software, original, dateTime) # {} THEN {"exif"} ELSE {})
         \cup (IF creatorTool THEN {"xmp"} ELSE {}) |->
     IF g = "exif"
       THEN exifGroup(software, original, dateTime)
       ELSE [k \in {"CreatorTool"} |-> [description |-> "Photoshop"]]]

ExifOutcomes ==
  {ExifThrows} \cup
  { [throws |-> FALSE, tags |-> tagTree(sw, ct, o, d)] :
      sw \in BOOLEAN, ct \in BOOLEAN,
      o \in Descriptions \cup {Null}, d \in Descriptions \cup {Null} }

ExifNone == [throws |-> FALSE, tags |-> tagTree(FALSE, FALSE, Null, Null)]

ExifEdited ==
  [throws |-> FALSE,
   tags |-> tagTree(TRUE, FALSE, "2021:06:01 10:00:00", "2020:01:01 10:00:00")]

AbsentEntry == [state |-> "absent", xml |-> EmptyObject]

ThrowingEntry == [state |-> "throws", xml |-> EmptyObject]

ZipEmpty == [opens |-> TRUE, core |-> AbsentEntry, app |-> AbsentEntry, custom |-> AbsentEntry]

SmallData == <<37, 80, 68, 70, 0>>

\* every (MIME type, name) pair
DispatchFiles ==
  { File(t, n, SmallData, TRUE, ExifNone, "ok", ZipEmpty) : t \in Types, n \in Names }

\* every outcome of the EXIF decoding, readable or not
ImageFiles ==
  { File(MimeJpeg, <<"a", ".", "j", "p", "g">>, SmallData, r, e, "ok", ZipEmpty) :
      r \in BOOLEAN, e \in ExifOutcomes }

\* PNG buffers: a signature, then up to MaxBlocks chunks, cut at every length
PngSignatures ==
  { <<137, 80, 78, 71, 13, 10, 26, 10>>, <<0, 80, 78, 71, 13, 10, 26, 10>>,
    <<137, 80, 78, 70, 13, 10, 26, 10>> }

\* the four length bytes: 0, 1, -12 and -20 as signed values, 2^31 - 1
LengthBytes ==
  { <<0, 0, 0, 0>>, <<0, 0, 0, 1>>, <<255, 255, 255, 244>>, <<255, 255, 255, 236>>,
    <<127, 255, 255, 255>> }

TypeIHDR == <<73, 72, 68, 82>>

TypeIEND == <<73, 69, 78, 68>>

\* length, type, data (one byte when the length is 1), CRC
PngBlocks ==
  { l \o t \o (IF l = <<0, 0, 0, 1>> THEN <<7>> ELSE <<>>) \o <<0, 0, 0, 0>> :
      l \in LengthBytes, t \in {TypeIHDR, TypeIEND} }

RECURSIVE Concatenations(_, _)
Concatenations(parts, n) ==
  IF n = 0
    THEN {<<>>}
    ELSE LET shorter == Concatenations(parts, n - 1)
         IN  shorter \cup { s \o b : s \in shorter, b \in parts }

Prefixes(seqs) == UNION { { SubSeq(s, 1, n) : n \in 0..Len(s) } : s \in seqs }

PngBuffers ==
  Prefixes({ sig \o body : sig \in PngSignatures,
                           body \in Concatenations(PngBlocks, MaxBlocks) })

IendOnly == <<137, 80, 78, 71, 13, 10, 26, 10>> \o <<0, 0, 0, 0>> \o TypeIEND

PngFiles ==
  { File(MimePng, <<"a", ".", "p", "n", "g">>, d, TRUE, e, "ok", ZipEmpty) :
      d \in PngBuffers, e \in {ExifThrows, ExifEdited} }
  \cup
  { File(MimePng, <<"a", ".", "p", "n", "g">>, IendOnly, r, e, "ok", ZipEmpty) :
      r \in BOOLEAN, e \in ExifOutcomes }

\* PDF buffers: up to MaxFragments fragments, the four patterns among them
PdfFragments ==
  { <<0>>, <<97, 98>>, <<37, 80, 68, 70>>, PatJS, PatJavaScript, PatAA, PatOpenAction }

PdfBuffers == Concatenations(PdfFragments, MaxFragments)

PdfOutcomes == {"ok", "loadThrows", "getterThrows"}

PdfFiles ==
  { File(MimePdf, <<"a", ".", "p", "d", "f">>, d, r, ExifNone, o, ZipEmpty) :
      d \in PdfBuffers, r \in BOOLEAN, o \in PdfOutcomes }

\* DOCX packages: every state of the three entries, every core.xml over the date texts
DateTexts == {"", "not a date", "2020-01-01", "2020-01-02"}

\* the documents of core.xml: each tag present or not; a text that is not
\* well-formed gives a document with a parsererror element
CoreDocs ==
  { [t \in (IF c THEN {"dc:creator"} ELSE {})
          \cup (IF cr # Null THEN {"dcterms:created"} ELSE {})
          \cup (IF mo # Null THEN {"dcterms:modified"} ELSE {})
          \cup (IF bad THEN {"parsererror"} ELSE {}) |->
       CASE t = "dc:creator" -> "A"
         [] t = "dcterms:created" -> cr
         [] t = "dcterms:modified" -> mo
         [] t = "parsererror" -> "error on line 1"] :
      c \in BOOLEAN, cr \in DateTexts \cup {Null}, mo \in DateTexts \cup {Null},
      bad \in BOOLEAN }

AppDoc == [t \in {"Application", "Pages"} |-> IF t = "Pages" THEN "2" ELSE "Word"]

AppDocNotWellFormed == [t \in {"parsererror"} |-> "error on line 1"]

CustomDoc == [t \in {"property"} |-> "v"]

Entries(docs) == {AbsentEntry, ThrowingEntry} \cup { [state |-> "ok", xml |-> d] : d \in docs }

Zips ==
  { [opens |-> FALSE, core |-> AbsentEntry, app |-> AbsentEntry, custom |-> AbsentEntry] }
  \cup
  { [opens |-> TRUE, core |-> c, app |-> a, custom |-> u] :
      c \in Entries(CoreDocs), a \in Entries({AppDoc, AppDocNotWellFormed}),
      u \in Entries({CustomDoc}) }

DocxFiles ==
  { File(MimeDocx, <<"a", ".", "d", "o", "c", "x">>, SmallData, TRUE, ExifNone, "ok", z) :
      z \in Zips }
  \cup
  { File(MimeDocx, <<"a", ".", "d", "o", "c", "x">>, SmallData, FALSE, ExifNone, "ok", ZipEmpty) }

Files == DispatchFiles \cup ImageFiles \cup PngFiles \cup PdfFiles \cup DocxFiles

(***************************************************************************)
(* The state: one call of parseFile on one file.  pc is the place of the   *)
(* call: "parseFile", then the parser entered and its awaits and loop,     *)
(* then "done" (the promise resolved with result) or "rejected" (the       *)
(* promise rejected).  branch records the branch parseFile took.  offset,  *)
(* chunks, warnings, metadata and xmlDump are the locals of the parser.    *)
(***************************************************************************)
NoResult == [fileType |-> "NONE"]

Init ==
  /\ file \in Files
  /\ pc = "parseFile"
  /\ branch = "none"
  /\ offset = 0
  /\ chunks = <<>>
  /\ warnings = <<>>
  /\ metadata = EmptyObject
  /\ xmlDump = <<>>
  /\ result = NoResult
  /\ buffer = <<>>
  /\ minLength = DefaultMinLength
  /\ strings = <<>>
  /\ frequencies = <<>>
  /\ entropy = Zero
  /\ files = <<>>
  /\ batches = <<>>

\* the branch of parseFile for a MIME type and a lower-cased name
dispatch(type, name) ==
  IF type = MimeJpeg \/ endsWith(name, ExtJpg) \/ endsWith(name, ExtJpeg)
    THEN "parseImage"
  ELSE IF type = MimePng \/ endsWith(name, ExtPng)
    THEN "parsePng"
  ELSE IF type = MimePdf \/ endsWith(name, ExtPdf)
    THEN "parsePdf"
  ELSE IF type = MimeDocx \/ endsWith(name, ExtDocx)
    THEN "parseDocx"
  ELSE "generic"

genericResult == [fileType |-> "GENERIC", metadata |-> EmptyObject, warnings |-> <<>>]

ParseFile ==
  /\ pc = "parseFile"
  /\ LET target == dispatch(file.type, toLowerCase(file.name))
     IN  /\ branch' = target
         /\ IF target = "generic"
              THEN pc' = "done" /\ result' = genericResult
              ELSE pc' = target /\ result' = result
  /\ UNCHANGED <<file, offset, chunks, warnings, metadata, xmlDump, stringVars, entropyVars, appVars>>

ParseImage ==
  /\ pc = "parseImage"
  /\ pc' = "done"
  /\ metadata' = imageTags(file)
  /\ warnings' = imageWarnings(file)
  /\ result' = parseImage(file)
  /\ UNCHANGED <<file, branch, offset, chunks, xmlDump, stringVars, entropyVars, appVars>>

\* await file.arrayBuffer(), the magic number check, let offset = 8
PngStart ==
  /\ pc = "parsePng"
  /\ IF file.readable
       THEN /\ pc' = "pngWalk"
            /\ warnings' = IF pngSignatureInvalid(file.data)
                              THEN <<WarnPngSignature>> ELSE <<>>
            /\ offset' = 8
       ELSE /\ pc' = "rejected"
            /\ UNCHANGED <<warnings, offset>>
  /\ UNCHANGED <<file, branch, chunks, metadata, xmlDump, result, stringVars, entropyVars, appVars>>

\* one iteration of the while loop; the model follows MaxWalk of them
PngWalk ==
  /\ pc = "pngWalk"
  /\ walkContinues(file.data, offset)
  /\ Len(chunks) < MaxWalk
  /\ LET length == chunkLength(file.data, offset)
     IN  /\ chunks' = Append(chunks, [name |-> chunkType(file.data, offset),
                                      size |-> length, offset |-> offset])
         /\ offset' = nextOffset(offset, length)
  /\ UNCHANGED <<file, pc, branch, warnings, metadata, xmlDump, result, stringVars, entropyVars, appVars>>

\* the loop ends; await parseImage(file); return
PngReturn ==
  /\ pc = "pngWalk"
  /\ ~walkContinues(file.data, offset)
  /\ pc' = "done"
  /\ metadata' = parseImage(file).metadata
  /\ result' = [fileType |-> "PNG", metadata |-> parseImage(file).metadata,
                warnings |-> warnings \o parseImage(file).warnings, chunks |-> chunks]
  /\ UNCHANGED <<file, branch, offset, chunks, warnings, xmlDump, stringVars, entropyVars, appVars>>

\* await file.arrayBuffer(), then the try block and the return
ParsePdf ==
  /\ pc = "parsePdf"
  /\ IF file.readable
       THEN /\ pc' = "done"
            /\ metadata' = parsePdf(file).metadata
            /\ warnings' = parsePdf(file).warnings
            /\ result' = parsePdf(file)
       ELSE /\ pc' = "rejected"
            /\ UNCHANGED <<metadata, warnings, result>>
  /\ UNCHANGED <<file, branch, offset, chunks, xmlDump, stringVars, entropyVars, appVars>>

\* the catch block and the return: the call ends with what the locals hold
DocxFails ==
  /\ pc' = "done"
  /\ warnings' = docxFailure(metadata, warnings, xmlDump).warnings
  /\ result' = docxFailure(metadata, warnings, xmlDump)
  /\ UNCHANGED <<metadata, xmlDump>>

\* await JSZip.loadAsync(file)
DocxOpen ==
  /\ pc = "parseDocx"
  /\ IF file.readable /\ file.zip.opens
       THEN pc' = "docxCore" /\ UNCHANGED <<warnings, metadata, xmlDump, result>>
       ELSE DocxFails
  /\ UNCHANGED <<file, branch, offset, chunks, stringVars, entropyVars, appVars>>

\* the Core Properties block
DocxCore ==
  /\ pc = "docxCore"
  /\ LET entry == file.zip.core
         core == coreProperties(entry.xml)
     IN  CASE entry.state = "absent" ->
                pc' = "docxApp" /\ UNCHANGED <<warnings, metadata, xmlDump, result>>
           [] entry.state = "throws" -> DocxFails
           [] entry.state = "ok" ->
                /\ pc' = "docxApp"
                /\ xmlDump' = dumpSection(xmlDump, PathCore, entry.xml)
                /\ metadata' = setKey(metadata, "core", core)
                /\ warnings' = IF docxTemporal(core)
                                 THEN Append(warnings, WarnDocxTemporal) ELSE warnings
                /\ result' = result
  /\ UNCHANGED <<file, branch, offset, chunks, stringVars, entropyVars, appVars>>

\* the App Properties block
DocxApp ==
  /\ pc = "docxApp"
  /\ LET entry == file.zip.app
     IN  CASE entry.state = "absent" ->
                pc' = "docxCustom" /\ UNCHANGED <<warnings, metadata, xmlDump, result>>
           [] entry.state = "throws" -> DocxFails
           [] entry.state = "ok" ->
                /\ pc' = "docxCustom"
                /\ xmlDump' = dumpSection(xmlDump, PathApp, entry.xml)
                /\ metadata' = setKey(metadata, "app", appProperties(entry.xml))
                /\ UNCHANGED <<warnings, result>>
  /\ UNCHANGED <<file, branch, offset, chunks, stringVars, entropyVars, appVars>>

\* the Custom Properties block and the return
DocxCustom ==
  /\ pc = "docxCustom"
  /\ LET entry == file.zip.custom
         dump == IF entry.state = "ok"
                   THEN dumpSection(xmlDump, PathCustom, entry.xml) ELSE xmlDump
     IN  IF entry.state = "throws"
           THEN DocxFails
           ELSE /\ pc' = "done"
                /\ xmlDump' = dump
                /\ result' = docxResult(metadata, warnings, dump)
                /\ UNCHANGED <<warnings, metadata>>
  /\ UNCHANGED <<file, branch, offset, chunks, stringVars, entropyVars, appVars>>

Next ==
  \/ ParseFile
  \/ ParseImage
  \/ PngStart
  \/ PngWalk
  \/ PngReturn
  \/ ParsePdf
  \/ DocxOpen
  \/ DocxCore
  \/ DocxApp
  \/ DocxCustom

Spec == Init /\ [][Next]_vars

(***************************************************************************)
(* extractStrings as a pure function: the buffer and minLength are drawn   *)
(* from bounded sets and one action applies it.  The bytes are the ends of *)
(* the printable range and their neighbours, a newline and NUL; the two    *)
(* buffers of the documented examples are added.                           *)
(***************************************************************************)
ScanBytes == {0, 10, 31, 32, 126, 127}

RECURSIVE SeqsUpTo(_, _)
SeqsUpTo(S, n) ==
  IF n = 0
    THEN {<<>>}
    ELSE LET shorter == SeqsUpTo(S, n - 1)
         IN  shorter \cup { Append(q, b) : q \in shorter, b \in S }

\* "AB\x00CDEF\x01GH"
ExampleRuns == <<65, 66, 0, 67, 68, 69, 70, 1, 71, 72>>

\* "A\x00BCDE"
ExampleDropped == <<65, 0, 66, 67, 68, 69>>

ScanBuffers == SeqsUpTo(ScanBytes, MaxLen) \cup {ExampleRuns, ExampleDropped}

MinLengths == (1..MaxMinLength) \cup {DefaultMinLength}

DefaultFile ==
  File("", <<>>, <<>>, TRUE, ExifNone, "ok", ZipEmpty)

InitStrings ==
  /\ buffer \in ScanBuffers
  /\ minLength \in MinLengths
  /\ strings = <<>>
  /\ pc = "extractStrings"
  /\ file = DefaultFile
  /\ branch = "none"
  /\ offset = 0
  /\ chunks = <<>>
  /\ warnings = <<>>
  /\ metadata = EmptyObject
  /\ xmlDump = <<>>
  /\ result = NoResult
  /\ frequencies = <<>>
  /\ entropy = Zero
  /\ files = <<>>
  /\ batches = <<>>

ExtractStrings ==
  /\ pc = "extractStrings"
  /\ pc' = "returned"
  /\ strings' = extractStrings(buffer, minLength)
  /\ UNCHANGED <<file, branch, offset, chunks, warnings, metadata, xmlDump, result,
                 buffer, minLength, entropyVars, appVars>>

NextStrings == ExtractStrings

SpecStrings == InitStrings /\ [][NextStrings]_vars

(***************************************************************************)
(* getEntropy as a pure function: every buffer over three byte values up   *)
(* to MaxEntropyLen bytes, and the buffers of 181, 182 and 256 distinct    *)
(* bytes, whose entropies lie on both sides of 7.5 and at 8.               *)
(***************************************************************************)
EntropyBytes == {0, 65, 255}

\* n distinct bytes: 0, 1, ..., n - 1
Ramp(n) == [i \in 1..n |-> i - 1]

RampLengths == {181, 182, 256}

EntropyBuffers == SeqsUpTo(EntropyBytes, MaxEntropyLen) \cup { Ramp(n) : n \in RampLengths }

InitEntropy ==
  /\ buffer \in EntropyBuffers
  /\ pc = "getEntropy"
  /\ frequencies = <<>>
  /\ entropy = Zero
  /\ minLength = DefaultMinLength
  /\ strings = <<>>
  /\ file = DefaultFile
  /\ branch = "none"
  /\ offset = 0
  /\ chunks = <<>>
  /\ warnings = <<>>
  /\ metadata = EmptyObject
  /\ xmlDump = <<>>
  /\ result = NoResult
  /\ files = <<>>
  /\ batches = <<>>

GetEntropy ==
  /\ pc = "getEntropy"
  /\ pc' = "entropyReturned"
  /\ frequencies' = histogram(buffer)
  /\ entropy' = getEntropy(buffer)
  /\ UNCHANGED <<file, branch, offset, chunks, warnings, metadata, xmlDump, result,
                 stringVars, appVars>>

NextEntropy == GetEntropy

SpecEntropy == InitEntropy /\ [][NextEntropy]_vars

(***************************************************************************)
(* App (App.tsx) and FileDetail.  files is the state of useState.  batches *)
(* holds the calls of handleFilesSelected in the order they were made: the *)
(* files selected, the state of the analysis of each ("pending",           *)
(* "resolved", "rejected") and the state of the outer Promise.all          *)
(* ("inflight", "completed" once setFiles ran, "rejected").  The k-th call *)
(* of crypto.randomUUID in the analysis of file i of batch b is held as    *)
(* <<k, b, i>>, and the instant of new Date() as the number of the batch.  *)
(***************************************************************************)
\* arrayBuffer.slice(0, 1024)
FirstBytesLength == 1024

\* arrayBuffer.slice(0, 50 * 1024)
StringsWindow == 50 * 1024

\* ArrayBuffer.prototype.slice(0, end)
slice(data, end) == SubSeq(data, 1, IF Len(data) < end THEN Len(data) ELSE end)

\* a digest is held as the algorithm and the bytes it was taken of
calculateHashes(f) ==
  [a \in {"md5", "sha1", "sha256", "sha512"} |-> <<a, f.data>>]

\* parseFile for the formats whose parser is one step of the model
parseFileOf(f) ==
  LET target == dispatch(f.type, toLowerCase(f.name))
  IN  CASE target = "parseImage" -> parseImage(f)
        [] target = "parsePdf" -> parsePdf(f)
        [] OTHER -> genericResult

\* calculateHashes and file.arrayBuffer reject on a file whose bytes cannot be read
analysisRejects(f) == ~f.readable

\* a plausible slip: the entry is returned before the strings are extracted
fileStateWithoutStrings(f, b, i) ==
  [file |-> f,
   id |-> <<2, b, i>>,
   hashes |-> calculateHashes(f),
   metadata |-> parseFileOf(f),
   entropy |-> getEntropy(f.data),
   firstBytes |-> slice(f.data, FirstBytesLength),
   analysisTime |-> b,
   sessionId |-> <<1, b, i>>]

\* the object the analysis of one file resolves to
fileState(f, b, i) ==
  [file |-> f,
   id |-> <<2, b, i>>,
   hashes |-> calculateHashes(f),
   metadata |-> parseFileOf(f),
   entropy |-> getEntropy(f.data),
   firstBytes |-> slice(f.data, FirstBytesLength),
   strings |-> extractStrings(slice(f.data, StringsWindow), DefaultMinLength),
   analysisTime |-> b,
   sessionId |-> <<1, b, i>>]

\* what the outer Promise.all resolves to: the results in the order of selectedFiles
newFilesOf(b) ==
  [i \in 1..Len(batches[b].selected) |-> fileState(batches[b].selected[i], b, i)]

\* a plausible slip: [...prev, ...newFiles]
updaterAppends(newFiles, prev) == prev \o newFiles

\* prev => [...newFiles, ...prev]
updater(newFiles, prev) == newFiles \o prev

\* downloadReport: the object that is serialised
report(e) ==
  [fileName |-> e.file.name,
   fileSize |-> Len(e.file.data),
   fileType |-> e.file.type,
   sessionId |-> e.sessionId,
   analysisTime |-> e.analysisTime,
   hashes |-> e.hashes,
   entropy |-> e.entropy,
   metadata |-> e.metadata.metadata,
   warnings |-> e.metadata.warnings]

WarnHighEntropy == "Entropia Alta"

\* the items of the warnings banner of FileDetail
bannerItems(e) ==
  (IF isHighEntropy(e.entropy) THEN <<WarnHighEntropy>> ELSE <<>>) \o e.metadata.warnings

\* the files of a session: a text file, an edited photograph whose bytes are
\* 182 distinct values (entropy just above 7.5), and a file that cannot be read
TextFile ==
  File("text/plain", <<"a", ".", "d", "a", "t">>, SmallData, TRUE, ExifNone, "ok", ZipEmpty)

PackedPhoto ==
  File(MimeJpeg, <<"a", ".", "j", "p", "g">>, Ramp(182), TRUE, ExifEdited, "ok", ZipEmpty)

UnreadableFile ==
  File("text/plain", <<"a", ".", "d", "a", "t">>, SmallData, FALSE, ExifNone, "ok", ZipEmpty)

AppFiles == {TextFile, PackedPhoto, UnreadableFile}

Selections == SeqsUpTo(AppFiles, MaxFiles) \ {<<>>}

RECURSIVE TotalSelected(_)
TotalSelected(bs) == IF bs = <<>> THEN 0 ELSE Len(Head(bs).selected) + TotalSelected(Tail(bs))

InitApp ==
  /\ files = <<>>
  /\ batches = <<>>
  /\ pc = "app"
  /\ file = DefaultFile
  /\ branch = "none"
  /\ offset = 0
  /\ chunks = <<>>
  /\ warnings = <<>>
  /\ metadata = EmptyObject
  /\ xmlDump = <<>>
  /\ result = NoResult
  /\ buffer = <<>>
  /\ minLength = DefaultMinLength
  /\ strings = <<>>
  /\ frequencies = <<>>
  /\ entropy = Zero

\* handleFilesSelected is called: the analysis of every selected file starts
SelectFiles ==
  \E selectedFiles \in Selections :
    /\ TotalSelected(batches) + Len(selectedFiles) <= MaxFiles
    /\ batches' = Append(batches,
                         [selected |-> selectedFiles,
                          tasks |-> [i \in 1..Len(selectedFiles) |-> "pending"],
                          state |-> "inflight"])
    /\ UNCHANGED <<files, pc, parserVars, stringVars, entropyVars>>

\* the analysis of one file settles; it does so whatever became of the batch
FileAnalysed ==
  \E b \in DOMAIN batches :
    \E i \in DOMAIN batches[b].tasks :
      /\ batches[b].tasks[i] = "pending"
      /\ batches' = [batches EXCEPT ![b].tasks[i] =
                       IF analysisRejects(batches[b].selected[i])
                         THEN "rejected" ELSE "resolved"]
      /\ UNCHANGED <<files, pc, parserVars, stringVars, entropyVars>>

\* the outer Promise.all resolves: setFiles(prev => [...newFiles, ...prev])
BatchCompletes ==
  \E b \in DOMAIN batches :
    /\ batches[b].state = "inflight"
    /\ \A i \in DOMAIN batches[b].tasks : batches[b].tasks[i] = "resolved"
    /\ files' = updater(newFilesOf(b), files)
    /\ batches' = [batches EXCEPT ![b].state = "completed"]
    /\ UNCHANGED <<pc, parserVars, stringVars, entropyVars>>

\* the outer Promise.all rejects with the first rejection: the await throws
\* and setFiles is not reached
BatchRejects ==
  \E b \in DOMAIN batches :
    /\ batches[b].state = "inflight"
    /\ \E i \in DOMAIN batches[b].tasks : batches[b].tasks[i] = "rejected"
    /\ batches' = [batches EXCEPT ![b].state = "rejected"]
    /\ UNCHANGED <<files, pc, parserVars, stringVars, entropyVars>>

\* "Limpar Sessao", rendered when files.length > 0: setFiles([])
ClearSession ==
  /\ Len(files) > 0
  /\ files' = <<>>
  /\ UNCHANGED <<batches, pc, parserVars, stringVars, entropyVars>>

NextApp == SelectFiles \/ FileAnalysed \/ BatchCompletes \/ BatchRejects \/ ClearSession

SpecApp == InitApp /\ [][NextApp]_vars

(***************************************************************************)
(* Dispatch.                                                               *)
(***************************************************************************)
RecognisedMimes == {MimeJpeg, MimePng, MimePdf, MimeDocx}

ParserOfMime(type) ==
  CASE type = MimeJpeg -> "parseImage"
    [] type = MimePng -> "parsePng"
    [] type = MimePdf -> "parsePdf"
    [] type = MimeDocx -> "parseDocx"

\* the letters a and b are the same up to case
SameLetter(a, b) ==
  \/ a = b
  \/ a \in DOMAIN LowerOf /\ LowerOf[a] = b
  \/ b \in DOMAIN LowerOf /\ LowerOf[b] = a

\* name ends with ext, case-insensitively
HasExtension(name, ext) ==
  /\ Len(name) >= Len(ext)
  /\ \A i \in 1..Len(ext) : SameLetter(name[Len(name) - Len(ext) + i], ext[i])

\* neither the MIME type nor the extension is one of JPEG, PNG, PDF, DOCX
Unmatched(f) ==
  /\ f.type \notin RecognisedMimes
  /\ \A ext \in {ExtJpg, ExtJpeg, ExtPng, ExtPdf, ExtDocx} : ~HasExtension(f.name, ext)

FileTypeOfBranch(b) ==
  CASE b = "parseImage" -> "IMAGE"
    [] b = "parsePng" -> "PNG"
    [] b = "parsePdf" -> "PDF"
    [] b = "parseDocx" -> "DOCX"
    [] b = "generic" -> "GENERIC"

\* C1: once parseFile has dispatched a file whose MIME type is one of the four
\* recognised types, the branch taken is the parser of that MIME type, whatever
\* the extension of the name.
C1_MimeTypeHasPriority ==
  (branch # "none" /\ file.type \in RecognisedMimes) => branch = ParserOfMime(file.type)

\* C2: parseFile takes exactly one of the five branches and a result's fileType is
\* the one of that branch; a file matched by neither MIME type nor extension gets
\* the generic result (GENERIC, empty metadata, no warnings) at once, no parser
\* having run.
C2_OneBranchGenericFallback ==
  /\ branch \in {"none", "parseImage", "parsePng", "parsePdf", "parseDocx", "generic"}
  /\ pc = "parseFile" <=> branch = "none"
  /\ pc = "done" =>
       /\ result.fileType \in {"IMAGE", "PNG", "PDF", "DOCX", "GENERIC"}
       /\ result.fileType = FileTypeOfBranch(branch)
  /\ (branch # "none" /\ Unmatched(file)) =>
       /\ branch = "generic"
       /\ pc = "done"
       /\ result.fileType = "GENERIC"
       /\ DOMAIN result = {"fileType", "metadata", "warnings"}
       /\ DOMAIN result.metadata = {}
       /\ result.warnings = <<>>
       /\ chunks = <<>> /\ warnings = <<>> /\ xmlDump = <<>> /\ DOMAIN metadata = {}

\* C2 witness: an upper-case-free unmatched name with an unrecognised MIME type
\* has been dispatched to the generic result.
C2_Witness ==
  /\ pc = "done"
  /\ branch = "generic"
  /\ file.type = "text/plain"
  /\ file.name = <<"a", ".", "p", "d", "f", ".", "t", "x", "t">>
  /\ result.fileType = "GENERIC"

(***************************************************************************)
(* The PNG chunk walk.                                                     *)
(***************************************************************************)
InPng == branch = "parsePng" /\ pc \in {"pngWalk", "done"}

\* C3: every iteration of the chunk walk strictly increases the loop offset (so
\* the walk ends after at most as many iterations as the buffer has bytes).
C3_WalkOffsetIncreases == [][PngWalk => offset' > offset]_vars

\* C4: the recorded chunks reflect the layout: the first is at offset 8, each
\* later one at the previous offset + 12 + the previous size, the offsets strictly
\* increase, no chunk is recorded twice, every recorded header lies inside the
\* buffer; the magic bytes followed by the header {0, "IEND"} give exactly
\* <<[name "IEND", size 0, offset 8]>>.
C4_ChunksReflectLayout ==
  InPng =>
    /\ Len(chunks) >= 1 => chunks[1].offset = 8
    /\ \A i \in 2..Len(chunks) :
         /\ chunks[i].offset = chunks[i - 1].offset + 12 + chunks[i - 1].size
         /\ chunks[i].offset > chunks[i - 1].offset
    /\ \A i, j \in 1..Len(chunks) : i # j => chunks[i] # chunks[j]
    /\ \A i \in 1..Len(chunks) : chunks[i].offset + 8 <= Len(file.data)
    /\ (pc = "done" /\ file.data = IendOnly) =>
         result.chunks = <<[name |-> TypeIEND, size |-> 0, offset |-> 8]>>

\* C5: the size of every recorded chunk is the unsigned big-endian value of its
\* four length bytes, b0*2^24 + b1*2^16 + b2*2^8 + b3, never negative.  The value
\* is compared by its 16-bit halves, b0*2^8 + b1 and b2*2^8 + b3.
C5_SizeIsUnsigned ==
  InPng =>
    \A i \in 1..Len(chunks) :
      LET c == chunks[i]
      IN  c.offset >= 0 =>
            /\ c.size >= 0
            /\ c.size \div Pow16 = file.data[c.offset + 1] * 256 + file.data[c.offset + 2]
            /\ c.size % Pow16 = file.data[c.offset + 3] * 256 + file.data[c.offset + 4]

\* the first four bytes are not 0x89 0x50 0x4E 0x47 (a shorter buffer has no such bytes)
BadMagic(data) == Len(data) < 4 \/ SubSeq(data, 1, 4) # <<137, 80, 78, 71>>

\* C6: parsePng adds the signature warning exactly when the first four bytes are
\* not the magic number, and a mismatch does not end the call: in a result the walk
\* from offset 8 has run, the result has fileType PNG and a chunks list, its
\* metadata and warnings are those of the image decoding, and the signature
\* warning comes before them.  Only an unreadable file rejects the call.
C6_SignatureWarning ==
  /\ (branch = "parsePng" /\ pc = "rejected") => ~file.readable
  /\ (branch = "parsePng" /\ pc = "pngWalk") =>
       warnings = (IF BadMagic(file.data) THEN <<WarnPngSignature>> ELSE <<>>)
  /\ (branch = "parsePng" /\ pc = "done") =>
       /\ result.fileType = "PNG"
       /\ "chunks" \in DOMAIN result
       /\ result.metadata = parseImage(file).metadata
       /\ result.warnings =
            (IF BadMagic(file.data) THEN <<WarnPngSignature>> ELSE <<>>)
              \o parseImage(file).warnings
       /\ Len(file.data) >= 16 =>
            Len(result.chunks) >= 1 /\ result.chunks[1].offset = 8

\* C6 witness: a buffer with a wrong fourth magic byte was parsed to the end, a
\* chunk recorded, and the signature warning precedes the decode-error warning.
C6_Witness ==
  /\ branch = "parsePng"
  /\ pc = "done"
  /\ Len(file.data) >= 4
  /\ file.data[1] = 137
  /\ file.data[4] # 71
  /\ Len(result.chunks) >= 1
  /\ result.warnings = <<WarnPngSignature, WarnExif>>

(***************************************************************************)
(* extractStrings: the maximal runs, described without the scan.           *)
(***************************************************************************)
\* the byte is in [0x20, 0x7E] or is a tab, a line feed or a carriage return
RunByte(b) == b \in (32..126) \cup {9, 10, 13}

\* positions i..j of data are a maximal run: all matching, not extendable
MaximalRun(data, i, j) ==
  /\ i <= j
  /\ \A k \in i..j : RunByte(data[k])
  /\ i = 1 \/ ~RunByte(data[i - 1])
  /\ j = Len(data) \/ ~RunByte(data[j + 1])

\* the maximal runs of at least min bytes, as <<start, end>> pairs
LongRuns(data, min) ==
  { r \in (1..Len(data)) \X (1..Len(data)) :
      MaximalRun(data, r[1], r[2]) /\ r[2] - r[1] + 1 >= min }

\* the runs of the set in buffer order
RECURSIVE RunsInOrder(_, _)
RunsInOrder(data, runs) ==
  IF runs = {}
    THEN <<>>
    ELSE LET first == CHOOSE r \in runs : \A q \in runs : r[1] <= q[1]
         IN  <<SubSeq(data, first[1], first[2])>> \o RunsInOrder(data, runs \ {first})

\* C7: extractStrings returns exactly the maximal runs of matching bytes of
\* length >= minLength, in buffer order, a run reaching the end of the buffer
\* included; the two documented examples give the documented lists.
C7_ExactlyTheMaximalRuns ==
  pc = "returned" =>
    /\ strings = RunsInOrder(buffer, LongRuns(buffer, minLength))
    /\ (buffer = ExampleRuns /\ minLength = 2) =>
         strings = <<<<65, 66>>, <<67, 68, 69, 70>>, <<71, 72>>>>
    /\ (buffer = ExampleDropped /\ minLength = 4) => strings = <<<<66, 67, 68, 69>>>>

\* C7 witness: a scan that dropped a short run, kept a run of exactly minLength
\* bytes in the middle and kept the run that reaches the end of the buffer.
C7_Witness ==
  /\ pc = "returned"
  /\ buffer = ExampleRuns
  /\ minLength = 2
  /\ Len(strings) = 3
  /\ strings[3] = <<71, 72>>

(***************************************************************************)
(* parsePdf and parseDocx: failures of the capabilities.                   *)
(***************************************************************************)
Contains(seq, x) == \E k \in 1..Len(seq) : seq[k] = x

\* the archive capability fails somewhere in the call: the package does not
\* open, or an entry cannot be read.  (A text that is not well-formed XML is no
\* failure of a call: parseFromString returns a document for it.)
ZipFails(f) ==
  \/ ~f.readable
  \/ ~f.zip.opens
  \/ \E e \in {f.zip.core, f.zip.app, f.zip.custom} : e.state = "throws"

FileMentions(f, p1, p2) ==
  \E k \in 1..Len(extractStrings(f.data, DefaultMinLength)) :
     \/ includes(extractStrings(f.data, DefaultMinLength)[k], p1)
     \/ includes(extractStrings(f.data, DefaultMinLength)[k], p2)

\* C9: whether or not the document object loads, a PDF result carries the
\* embedded-JavaScript warning exactly when an extracted string contains
\* /JavaScript or /JS, and the automatic-action warning exactly when one contains
\* /OpenAction or /AA.
C9_HeuristicsRunRegardless ==
  (branch = "parsePdf" /\ pc = "done") =>
    /\ Contains(result.warnings, WarnPdfJs) <=> FileMentions(file, PatJavaScript, PatJS)
    /\ Contains(result.warnings, WarnPdfAction) <=> FileMentions(file, PatOpenAction, PatAA)

(***************************************************************************)
(* parseDocx: what a late failure preserves, and the raw dump.             *)
(***************************************************************************)
\* the entries in the order core, app, custom, with their paths
EntryOrder(zip) ==
  <<[path |-> PathCore, entry |-> zip.core], [path |-> PathApp, entry |-> zip.app],
    [path |-> PathCustom, entry |-> zip.custom]>>

\* the sections of the entries read before the first failure, in entry order
RECURSIVE SectionsRead(_, _)
SectionsRead(entries, k) ==
  IF k > Len(entries) \/ entries[k].entry.state = "throws"
    THEN <<>>
    ELSE (IF entries[k].entry.state = "ok"
            THEN <<[path |-> entries[k].path, text |-> entries[k].entry.xml]>>
            ELSE <<>>) \o SectionsRead(entries, k + 1)

\* core.xml holds a created date later than its modified date
CreatedAfterModified(xml) ==
  /\ Has(xml, "dcterms:created") /\ xml["dcterms:created"] = "2020-01-02"
  /\ Has(xml, "dcterms:modified") /\ xml["dcterms:modified"] = "2020-01-01"

\* C10: when core.xml was read and reading app.xml or custom.xml fails, the
\* result keeps metadata.core, the core.xml section of the dump and the temporal
\* warning, and has one failure warning after them; in every result of an opened
\* package the dump holds, in the order core, app, custom, one path-labeled
\* section per entry read and none for an absent entry.
C10_LateFailurePreserves ==
  (branch = "parseDocx" /\ pc = "done" /\ file.readable /\ file.zip.opens) =>
    /\ result.xmlDump = SectionsRead(EntryOrder(file.zip), 1)
    /\ (/\ file.zip.core.state = "ok"
        /\ (file.zip.app.state = "throws" \/ file.zip.custom.state = "throws")) =>
         /\ Has(result.metadata, "core")
         /\ result.metadata["core"].creator =
              (IF Has(file.zip.core.xml, "dc:creator") THEN "A" ELSE Null)
         /\ result.xmlDump[1] = [path |-> PathCore, text |-> file.zip.core.xml]
         /\ result.warnings =
              (IF CreatedAfterModified(file.zip.core.xml) THEN <<WarnDocxTemporal>> ELSE <<>>)
                \o <<WarnDocxError>>

\* C10 witness: core.xml and app.xml were read, custom.xml failed, and the result
\* holds both sections, metadata.core and the temporal warning before the failure.
C10_Witness ==
  /\ branch = "parseDocx"
  /\ pc = "done"
  /\ file.zip.core.state = "ok"
  /\ file.zip.app.state = "ok"
  /\ file.zip.custom.state = "throws"
  /\ Len(result.xmlDump) = 2
  /\ Has(result.metadata, "core")
  /\ result.warnings = <<WarnDocxTemporal, WarnDocxError>>

(***************************************************************************)
(* parseDocx: the temporal heuristic.                                      *)
(***************************************************************************)
\* the minimal package of the documented example
ExampleCore ==
  [t \in {"dc:creator", "dcterms:created", "dcterms:modified"} |->
     CASE t = "dc:creator" -> "A"
       [] t = "dcterms:created" -> "2020-01-02"
       [] t = "dcterms:modified" -> "2020-01-01"]

\* core.xml was read by the call
CoreRead(f) == f.readable /\ f.zip.opens /\ f.zip.core.state = "ok"

\* C11: a DOCX result carries the temporal warning (once) exactly when core.xml
\* was read, both dcterms:created and dcterms:modified are present and valid
\* dates, and created is strictly later than modified; a missing tag gives a null
\* field and no warning; the documented example gives the warning and creator "A".
C11_TemporalWarning ==
  (branch = "parseDocx" /\ pc = "done") =>
    /\ Contains(result.warnings, WarnDocxTemporal)
         <=> (CoreRead(file) /\ CreatedAfterModified(file.zip.core.xml))
    /\ \A i, j \in 1..Len(result.warnings) :
         (result.warnings[i] = WarnDocxTemporal /\ result.warnings[j] = WarnDocxTemporal)
           => i = j
    /\ CoreRead(file) =>
         /\ ~Has(file.zip.core.xml, "dcterms:created")
              => result.metadata["core"].created = Null
         /\ ~Has(file.zip.core.xml, "dcterms:modified")
              => result.metadata["core"].modified = Null
    /\ (CoreRead(file) /\ file.zip.core.xml = ExampleCore) =>
         /\ Contains(result.warnings, WarnDocxTemporal)
         /\ result.metadata["core"].creator = "A"

\* C11 witness: the documented example package (core.xml only) was parsed and
\* its result holds the temporal warning alone.
C11_Witness ==
  /\ branch = "parseDocx"
  /\ pc = "done"
  /\ file.zip.core.state = "ok"
  /\ file.zip.core.xml = ExampleCore
  /\ file.zip.app.state = "absent"
  /\ file.zip.custom.state = "absent"
  /\ result.warnings = <<WarnDocxTemporal>>
  /\ result.metadata["core"].creator = "A"

(***************************************************************************)
(* parseImage: decode failure and the two anomaly rules.                   *)
(***************************************************************************)
\* the moment an EXIF date text names, in minutes from 2020:01:01 00:00; the
\* empty text names none
ExifMinutes ==
  [d \in {"2020:01:01 10:00:00", "2021:06:01 10:00:00"} |->
     IF d = "2020:01:01 10:00:00" THEN 600 ELSE 744480 + 600]

\* the tree has the tag
TreeHas(tree, group, tag) == group \in DOMAIN tree /\ tag \in DOMAIN tree[group]

\* both date tags exist and DateTimeOriginal is later than DateTime
OriginalAfterDateTime(tree) ==
  /\ TreeHas(tree, "exif", "DateTimeOriginal")
  /\ TreeHas(tree, "exif", "DateTime")
  /\ tree["exif"]["DateTimeOriginal"].description \in DOMAIN ExifMinutes
  /\ tree["exif"]["DateTime"].description \in DOMAIN ExifMinutes
  /\ ExifMinutes[tree["exif"]["DateTimeOriginal"].description]
       > ExifMinutes[tree["exif"]["DateTime"].description]

RECURSIVE SumCounts(_, _, _)
SumCounts(freq, lo, hi) ==
  IF lo = hi
    THEN freq[lo]
    ELSE SumCounts(freq, lo, (lo + hi) \div 2) + SumCounts(freq, (lo + hi) \div 2 + 1, hi)

\* all bytes of the buffer are the same
AllSame(data) == \A i, j \in 1..Len(data) : data[i] = data[j]

\* C15: the histogram has 256 buckets whose counts sum to the buffer length and
\* count each byte value; the result is a number (not NaN: empty buckets are
\* skipped and nothing is divided by zero), exactly 0 for the empty buffer and
\* for a buffer of identical bytes, and within [0, 8] for every buffer.
C15_EntropyRange ==
  pc = "entropyReturned" =>
    /\ DOMAIN frequencies = 0..255
    /\ SumCounts(frequencies, 0, 255) = Len(buffer)
    /\ \A b \in 0..255 :
         frequencies[b] = Cardinality({ i \in 1..Len(buffer) : buffer[i] = b })
    /\ ~entropy.nan
    /\ entropy.micro >= 0
    /\ entropy.micro <= 8000000
    /\ AllSame(buffer) => entropy.micro = 0
    /\ buffer = Ramp(256) => entropy.micro = 8000000

\* C15 witness: the entropy of a buffer of several identical bytes was computed
\* and is 0.
C15_Witness ==
  /\ pc = "entropyReturned"
  /\ Len(buffer) >= 3
  /\ AllSame(buffer)
  /\ frequencies[65] = Len(buffer)
  /\ entropy = Zero

(***************************************************************************)
(* The session: handleFilesSelected, the clear button, the report.         *)
(***************************************************************************)
\* C12: for every analysed file, the warnings exported in its report contain
\* the high-entropy warning exactly when its entropy is strictly greater
\* than 7.5.
C12_HighEntropyIsAWarning ==
  \A k \in 1..Len(files) :
    Contains(report(files[k]).warnings, WarnHighEntropy)
      <=> (~files[k].entropy.nan /\ files[k].entropy.micro > HighEntropyMicro)

\* C13: when a batch stops being in flight, every file of it whose analysis
\* succeeded has its result in the list of analysed files, whatever became of
\* the other files of the batch.
C13_FailureIsScopedToOneFile ==
  [][\A b \in DOMAIN batches :
       (batches[b].state = "inflight" /\ batches'[b].state # "inflight") =>
         \A i \in DOMAIN batches[b].tasks :
           batches[b].tasks[i] = "resolved" =>
             Contains(files', fileState(batches[b].selected[i], b, i))]_vars

FileStateFields ==
  {"file", "id", "hashes", "metadata", "entropy", "firstBytes", "strings",
   "analysisTime", "sessionId"}

\* every field of the entry is set, to the outcome of its computation on the file
Complete(e) ==
  /\ DOMAIN e = FileStateFields
  /\ e.hashes = calculateHashes(e.file)
  /\ e.metadata = parseFileOf(e.file)
  /\ e.entropy = getEntropy(e.file.data)
  /\ e.firstBytes = slice(e.file.data, FirstBytesLength)
  /\ e.strings = extractStrings(slice(e.file.data, StringsWindow), DefaultMinLength)

\* the analysis of the entry's file, and of every file selected with it, is over
AnalysisOver(e) ==
  \A i \in DOMAIN batches[e.id[2]].tasks : batches[e.id[2]].tasks[i] = "resolved"

\* C14: every entry of the list of analysed files has all of hashes, metadata,
\* entropy, firstBytes and strings set, is in the list only once the analysis
\* of its file is over, and is the same in the next state if it is still there.
C14_NoPartialResult ==
  /\ [](\A k \in 1..Len(files) : Complete(files[k]) /\ AnalysisOver(files[k]))
  /\ [][\A k \in 1..Len(files) : \A j \in 1..Len(files') :
          files'[j].id = files[k].id => files'[j] = files[k]]_vars

\* C14 witness: results are listed while another batch is half analysed, and
\* nothing of that batch is listed.
C14_Witness ==
  /\ Len(files) > 0
  /\ \E b \in DOMAIN batches :
       /\ batches[b].state = "inflight"
       /\ \E i \in DOMAIN batches[b].tasks : batches[b].tasks[i] = "resolved"
       /\ \E i \in DOMAIN batches[b].tasks : batches[b].tasks[i] = "pending"
       /\ \A k \in 1..Len(files) : files[k].id[2] # b

\* the batch completes in this step
Completes(b) == batches[b].state = "inflight" /\ batches'[b].state = "completed"

\* C17: when a batch completes its results, in selection order, are put before
\* what the list holds at that moment, which is kept as it is; the list
\* changes otherwise only by the clear, which empties it and leaves the
\* batches in flight as they are; no result is listed twice.
C17_BatchesPrepended ==
  [][/\ \A b \in DOMAIN batches :
          Completes(b) =>
            /\ Len(files') = Len(batches[b].selected) + Len(files)
            /\ \A i \in 1..Len(batches[b].selected) :
                 /\ files'[i].file = batches[b].selected[i]
                 /\ files'[i].id = <<2, b, i>>
            /\ \A k \in 1..Len(files) : files'[Len(batches[b].selected) + k] = files[k]
     /\ (files' # files /\ \A b \in DOMAIN batches : ~Completes(b)) =>
          files' = <<>> /\ batches' = batches
     /\ \A j, k \in 1..Len(files') : files'[j].id = files'[k].id => j = k]_vars

\* C17 witness: of two batches in flight at the same time the one selected
\* first completed last; both are listed, the later-completed one first, its
\* two files in selection order.
C17_Witness ==
  /\ Len(batches) = 2
  /\ batches[1].state = "completed"
  /\ batches[2].state = "completed"
  /\ Len(batches[1].selected) = 2
  /\ batches[1].selected[1] # batches[1].selected[2]
  /\ files = newFilesOf(1) \o newFilesOf(2)

====
